---- MODULE Spec2Model ----
(***************************************************************************)
(* The meeting_suggestion tool of the Google Workspace MCP server, in its  *)
(* three variants: src/src/index.ts ("index"), src/unnamed/part_000        *)
(* ("part_000", native Date) and src/unnamed/part_001 ("part_001", Luxon). *)
(*                                                                         *)
(* Time.  An instant is an integer number of minutes since 00:00 UTC of    *)
(* day 0; day 0 is a Monday.  A time zone is a fixed offset in minutes     *)
(* (local = UTC + offset); the host's zone is hostOffset.  A JavaScript    *)
(* Date and a Luxon DateTime are modelled by their instant; their local    *)
(* getters and setters go through the offset of the zone they use.         *)
(* A calendar date (the string YYYY-MM-DD) is modelled by its day number.  *)
(*                                                                         *)
(* An optional request field is <<>> when absent and <<v>> when supplied.  *)
(***************************************************************************)
EXTENDS Integers, Sequences, FiniteSets, TLC

VARIABLES
    variant,            \* which file's handler serves the call
    hostOffset,         \* the host's offset from UTC, minutes
    now,                \* the wall clock when the call is made (instant)
    calendars,          \* the provider's busy data: calendar id -> sequence of busy entries
    args,               \* request.params.arguments
    pc,                 \* position of the handler
    cfg,                \* the handler's constants after defaulting
    startDate,          \* instant
    endDate,            \* instant
    busySlots,          \* the flattened, filtered busy entries
    dayPointer,         \* instant
    daysWithSlotsFound,
    suggestions,        \* sequence of [start, end] (instants)
    isError,            \* the result carries isError: true
    fetchCount,         \* history: number of freebusy.query calls issued
    examined,           \* history: the calendar days the loop body ran for
    lastCall,           \* history: arguments and result of the last findFreeSlots call
    calls,              \* two invocations in one server: id -> position, arguments, result
    frames,             \* the activation records: frame -> the locals set before the await
    mailbox,            \* Gmail: number of messages messages.list returns
    events,             \* Google Calendar: the set of events of the account
    apiLog,             \* history: the Google API methods called, in order
    lastTool,           \* history: the last CallTool request and how it ended
    outbox              \* Gmail: the messages sent, each a sequence of lines

vars == << variant, hostOffset, now, calendars, args, pc, cfg, startDate, endDate,
           busySlots, dayPointer, daysWithSlotsFound, suggestions, isError,
           fetchCount, examined, lastCall, calls, frames,
           mailbox, events, apiLog, lastTool, outbox >>

---------------------------------------------------------------------------
(* Time arithmetic *)

\* h hours and d days, in minutes.
Hours(h) == h * 60
Days(d) == d * 24 * 60

\* The calendar day of instant t read in a zone of offset off.
LocalDay(t, off) == (t + off) \div Days(1)

\* The instant of local midnight of day d in a zone of offset off.
Midnight(d, off) == Days(d) - off

\* Date.prototype.getDay of a day: 0 = Sunday .. 6 = Saturday.
GetDay(d) == (d + 1) % 7

\* Luxon DateTime#weekday of a day: 1 = Monday .. 7 = Sunday.
Weekday(d) == (d % 7) + 1

\* Offset of the IANA zones the model uses.
ZoneOffset(tz) == IF tz = "America/Sao_Paulo" THEN Hours(-3)
                  ELSE IF tz = "Asia/Tokyo" THEN Hours(9)
                  ELSE 0

---------------------------------------------------------------------------
(* Defaults: x || d *)

Absent == << >>
Some(v) == << v >>

\* JavaScript's `x || d` for a numeric field: undefined and 0 are falsy.
OrDefaultNum(x, d) == IF x = Absent THEN d ELSE IF x[1] = 0 THEN d ELSE x[1]

\* `x || d` for a string or an array field: only undefined is falsy
\* (an empty array is truthy).
OrDefaultObj(x, d) == IF x = Absent THEN d ELSE x[1]

Defaults(a) ==
    [ meetingLength      |-> OrDefaultNum(a.meetingLengthMinutes, 60),
      workStartHour      |-> OrDefaultNum(a.workingHoursStart, 9),
      workEndHour        |-> OrDefaultNum(a.workingHoursEnd, 17),
      timezone           |-> OrDefaultObj(a.timezone, "America/Sao_Paulo"),
      slotsPerDay        |-> OrDefaultNum(a.slotsPerDay, 1),
      daysToSearch       |-> OrDefaultNum(a.daysToSearch, 3),
      maxDaysToLookAhead |-> OrDefaultNum(a.maxDaysToLookAhead, 30),
      bankHolidays       |-> OrDefaultObj(a.bankHolidays, {}),
      calendarIds        |-> OrDefaultObj(a.calendarIds, << "primary" >>) ]

---------------------------------------------------------------------------
(* findFreeSlots *)

\* new Date(s) of a busy entry's start or end string: the instant it names.
DateOf(x) == x[1]

\* Mutant: the end is computed in the wrong unit.
SlotWrongUnit(pointer, L) == [ start |-> pointer, end |-> pointer + L * 60 ]

\* One pushed slot: { start: new Date(pointer), end: pointer + meetingLengthMinutes * 60000 }.
Slot(pointer, L) == [ start |-> pointer, end |-> pointer + L ]

\* Mutant: the filter forgets the test against dayEnd.
InWindowNoDayEnd(slot, dayStart, dayEnd) == DateOf(slot.end) > dayStart

\* The .filter(...) predicate of sortedBusySlots.
InWindow(slot, dayStart, dayEnd) ==
    DateOf(slot.start) < dayEnd /\ DateOf(slot.end) > dayStart

\* Mutant: the kept entries are scanned in the order given.
Unsorted(s) == s

\* Array.prototype.sort by start instant; the sort is stable.
RECURSIVE SortByStart(_)
InsertByStart(x, sorted) ==
    LET k == Cardinality({ i \in 1..Len(sorted) : DateOf(sorted[i].start) <= DateOf(x.start) })
    IN  SubSeq(sorted, 1, k) \o << x >> \o SubSeq(sorted, k + 1, Len(sorted))
SortByStart(s) ==
    IF s = << >> THEN << >>
    ELSE InsertByStart(s[Len(s)], SortByStart(SubSeq(s, 1, Len(s) - 1)))

SortedBusySlots(busy, dayStart, dayEnd) ==
    LET Keep(b) == InWindow(b, dayStart, dayEnd)
    IN  SortByStart(SelectSeq(busy, Keep))

\* Mutant: the pointer jumps to busyEnd even when it is already past it.
AdvancePointerAlways(pointer, busyEnd) == busyEnd

\* `if (pointer < busyEnd) pointer = new Date(busyEnd)`.
AdvancePointer(pointer, busyEnd) == IF pointer < busyEnd THEN busyEnd ELSE pointer

\* Mutant: an `if` where the `while` stands.
PackIf(pointer, limit, L) ==
    IF limit - pointer >= L THEN << [ start |-> pointer, end |-> pointer + L ] >> ELSE << >>

\* part_001: `while (limit - pointer >= L * 60000) { push; pointer += L * 60000 }`,
\* for L > 0.
RECURSIVE PackWhile(_, _, _)
PackWhile(pointer, limit, L) ==
    IF limit - pointer >= L
    THEN << Slot(pointer, L) >> \o PackWhile(pointer + L, limit, L)
    ELSE << >>

\* The same loop never exits when L <= 0 and its condition holds on entry:
\* the pointer does not move forward, so the condition keeps holding.
WhileDiverges(pointer, limit, L) == L <= 0 /\ limit - pointer >= L

\* Mutant: every slot of the gap starts at the pointer.
PackFloorSameStart(pointer, limit, L) ==
    IF pointer < limit /\ limit - pointer >= L /\ L > 0
    THEN [ i \in 1..((limit - pointer) \div L) |-> [ start |-> pointer, end |-> pointer + L ] ]
    ELSE << >>

\* part_000: `for (i = 0; i < Math.floor(gapMinutes / L); i++) push(pointer + i * L)`,
\* entered when pointer < limit and gapMinutes >= L.  For L < 0 the floor is
\* negative and the loop body never runs.
PackFloor(pointer, limit, L) ==
    IF pointer < limit /\ limit - pointer >= L /\ L > 0
    THEN [ i \in 1..((limit - pointer) \div L) |-> Slot(pointer + (i - 1) * L, L) ]
    ELSE << >>

\* For L = 0 the bound is Math.floor(gap / 0) = Infinity: the for loop never exits.
ForDiverges(pointer, limit, L) == pointer < limit /\ L = 0

\* index.ts: at most one slot per gap.
PackOne(pointer, limit, L) ==
    IF pointer < limit /\ limit - pointer >= L
    THEN << Slot(pointer, L) >>
    ELSE << >>

\* The slots one gap [pointer, limit) receives, per variant.
PackGap(v, pointer, limit, L) ==
    IF v = "part_001" THEN PackWhile(pointer, limit, L)
    ELSE IF v = "part_000" THEN PackFloor(pointer, limit, L)
    ELSE PackOne(pointer, limit, L)

GapDiverges(v, pointer, limit, L) ==
    IF v = "part_001" THEN WhileDiverges(pointer, limit, L)
    ELSE IF v = "part_000" THEN ForDiverges(pointer, limit, L)
    ELSE FALSE

\* The pointer after a gap was packed: only part_001's loop moves it.
PointerAfterGap(v, pointer, packed, L) ==
    IF v = "part_001" THEN pointer + L * Len(packed) ELSE pointer

\* The body of `for (const busy of sortedBusySlots)`, on the loop state
\* st = [pointer, freeSlots, diverges].
BusyStep(v, st, busy, L) ==
    IF st.diverges THEN st
    ELSE IF GapDiverges(v, st.pointer, DateOf(busy.start), L)
    THEN [ st EXCEPT !.diverges = TRUE ]
    ELSE LET packed == PackGap(v, st.pointer, DateOf(busy.start), L)
             p1 == PointerAfterGap(v, st.pointer, packed, L)
         IN  [ pointer   |-> AdvancePointer(p1, DateOf(busy.end)),
               freeSlots |-> st.freeSlots \o packed,
               diverges  |-> FALSE ]

RECURSIVE ScanBusy(_, _, _, _, _)
ScanBusy(v, st, sorted, i, L) ==
    IF i > Len(sorted) THEN st
    ELSE ScanBusy(v, BusyStep(v, st, sorted[i], L), sorted, i + 1, L)

\* The packing after the last busy entry, up to dayEnd.
FinalStep(v, st, dayEnd, L) ==
    IF st.diverges THEN st
    ELSE IF GapDiverges(v, st.pointer, dayEnd, L)
    THEN [ st EXCEPT !.diverges = TRUE ]
    ELSE LET packed == PackGap(v, st.pointer, dayEnd, L)
         IN  [ pointer   |-> PointerAfterGap(v, st.pointer, packed, L),
               freeSlots |-> st.freeSlots \o packed,
               diverges  |-> FALSE ]

\* findFreeSlots(busySlots, dayStart, dayEnd, meetingLengthMinutes):
\* [freeSlots |-> the returned array, diverges |-> the call never returns].
\* Mutant: sort is called on busySlots itself and orders it in place.
InputsAfterSortInPlace(busy, dayStart, dayEnd) ==
    [ busy |-> SortByStart(busy), dayStart |-> dayStart, dayEnd |-> dayEnd ]

\* The caller's busySlots, dayStart and dayEnd when findFreeSlots returns:
\* filter returns a new array and sort orders that one; pointer is a new Date
\* copied from dayStart, so setTime never reaches dayStart; dayEnd is only read.
InputsAfter(busy, dayStart, dayEnd) ==
    [ busy |-> busy, dayStart |-> dayStart, dayEnd |-> dayEnd ]

findFreeSlots(v, busy, dayStart, dayEnd, L) ==
    LET sorted == SortedBusySlots(busy, dayStart, dayEnd)
        st0 == [ pointer |-> dayStart, freeSlots |-> << >>, diverges |-> FALSE ]
        st1 == ScanBusy(v, st0, sorted, 1, L)
        st2 == FinalStep(v, st1, dayEnd, L)
    IN  [ freeSlots |-> st2.freeSlots, diverges |-> st2.diverges ]

---------------------------------------------------------------------------
(* handleMeetingSuggestion: the pieces *)

Variants == { "index", "part_000", "part_001" }

\* new Date("YYYY-MM-DD"): a date-only ISO string is read as 00:00 UTC.
DateParse(d) == Days(d)

\* The offset dayPointer's local getters and setters use: the request zone
\* for Luxon, the host's zone for a native Date.
WalkOffset(v, tz, host) == IF v = "part_001" THEN ZoneOffset(tz) ELSE host

\* Start-date resolution; the result is the instant startDate holds when the
\* fetch is issued.
\* Mutant: the start is always taken from the wall clock.
ResolveStartFromClock(v, sd, tz, host, clock) ==
    Midnight(LocalDay(clock, ZoneOffset(tz)) + 1, IF v = "part_001" THEN ZoneOffset(tz) ELSE host)

ResolveStart(v, sd, tz, host, clock) ==
    IF v = "part_001"
    THEN \* DateTime.fromISO(s, {zone}).startOf("day") / now.setZone.plus(1).startOf("day")
         IF sd # Absent THEN Midnight(sd[1], ZoneOffset(tz))
         ELSE Midnight(LocalDay(clock, ZoneOffset(tz)) + 1, ZoneOffset(tz))
    ELSE IF v = "part_000"
    THEN \* new Date(s).setHours(0,0,0,0) / new Date(now.toLocaleString(tz)) + 1 day
         IF sd # Absent THEN Midnight(LocalDay(DateParse(sd[1]), host), host)
         ELSE Midnight(LocalDay(clock, ZoneOffset(tz)) + 1, host)
    ELSE \* index: the instant's wall clock in tz is re-read as host-local time
         IF sd # Absent THEN Midnight(LocalDay(DateParse(sd[1]), ZoneOffset(tz)), host)
         ELSE Midnight(LocalDay(clock, ZoneOffset(tz)) + 1, host)

\* endDate, from startDate and maxDaysToLookAhead.  Luxon's endOf("day") is
\* 23:59:59.999, here the last minute of the day.
ResolveEnd(v, start, maxDays, tz, host) ==
    IF v = "part_001"
    THEN Midnight(LocalDay(start, ZoneOffset(tz)) + maxDays, ZoneOffset(tz)) + Days(1) - 1
    ELSE Midnight(LocalDay(start, host) + maxDays, host)

\* The loop condition of the day-walk.
WalkOn(found, daysToSearch, dp, end) == found < daysToSearch /\ dp < end

\* The calendar day the loop body works on.
PointerDay(v, dp, tz, host) == LocalDay(dp, WalkOffset(v, tz, host))

\* formattedDate: toISODate() in the zone (Luxon), toISOString().split('T')[0]
\* (the UTC date) for a native Date.
FormattedDate(v, dp, tz, host) ==
    IF v = "part_001" THEN LocalDay(dp, ZoneOffset(tz)) ELSE LocalDay(dp, 0)

\* The test that lets a day through to findFreeSlots.
IsWorkingDay(v, dp, holidays, tz, host) ==
    /\ IF v = "part_001"
       THEN Weekday(PointerDay(v, dp, tz, host)) < 6
       ELSE GetDay(PointerDay(v, dp, tz, host)) # 0 /\ GetDay(PointerDay(v, dp, tz, host)) # 6
    /\ FormattedDate(v, dp, tz, host) \notin holidays

\* dayPointer with its local hour set to h, minutes and below to 0.
AtHour(v, dp, h, tz, host) ==
    Midnight(PointerDay(v, dp, tz, host), WalkOffset(v, tz, host)) + Hours(h)

\* Mutant: a day counts only when it produced a slot.
CountsDayWithSlots(v, freeSlots) == Len(freeSlots) > 0

\* Whether the day increments daysWithSlotsFound.
CountsDay(v, freeSlots) == v = "part_001" \/ Len(freeSlots) > 0

\* Array.prototype.slice(0, n): a negative n counts from the end.
Slice0(seq, n) ==
    IF n >= Len(seq) THEN seq
    ELSE IF n >= 0 THEN SubSeq(seq, 1, n)
    ELSE SubSeq(seq, 1, Len(seq) + n)

\* part_001's collecting loop: `if (slotsAddedToday >= slotsPerDay) break`.
TakeWhileUnder(seq, n) ==
    IF n >= Len(seq) THEN seq
    ELSE IF n >= 0 THEN SubSeq(seq, 1, n)
    ELSE << >>

\* Mutant: every packed slot reaches the output.
TakeAll(v, freeSlots, slotsPerDay) == freeSlots

\* The slots of a day that reach the output.
TakeSlots(v, freeSlots, slotsPerDay) ==
    IF v = "part_001" THEN TakeWhileUnder(freeSlots, slotsPerDay)
    ELSE Slice0(freeSlots, slotsPerDay)

\* calendar.freebusy.query: for each requested calendar the provider knows,
\* its busy entries that intersect [timeMin, timeMax].
InRange(e, timeMin, timeMax) ==
    \/ e.start = Absent
    \/ e.end = Absent
    \/ DateOf(e.start) < timeMax /\ DateOf(e.end) > timeMin

SeqRange(seq) == { seq[i] : i \in 1..Len(seq) }

FreeBusyQuery(cals, ids, timeMin, timeMax) ==
    LET Hit(e) == InRange(e, timeMin, timeMax)
    IN  [ id \in (SeqRange(ids) \cap DOMAIN cals) |-> SelectSeq(cals[id], Hit) ]

\* calendarIds.flatMap(id => response.calendars?.[id]?.busy || [])
RECURSIVE FlatMapBusy(_, _, _)
FlatMapBusy(ids, resp, i) ==
    IF i > Len(ids) THEN << >>
    ELSE (IF ids[i] \in DOMAIN resp THEN resp[ids[i]] ELSE << >>)
         \o FlatMapBusy(ids, resp, i + 1)

\* .filter(slot => !!slot.start && !!slot.end)
HasBothEnds(slot) == slot.start # Absent /\ slot.end # Absent

\* Mutant: an entry without end is kept and taken to last one day.
BusyOfOpenEnded(ids, resp) ==
    LET HasStart(slot) == slot.start # Absent
        Close(slot) == [ start |-> slot.start,
                         end |-> IF slot.end = Absent
                                 THEN Some(DateOf(slot.start) + Days(1)) ELSE slot.end ]
        kept == SelectSeq(FlatMapBusy(ids, resp, 1), HasStart)
    IN  [ i \in 1..Len(kept) |-> Close(kept[i]) ]

BusyOf(ids, resp) == SelectSeq(FlatMapBusy(ids, resp, 1), HasBothEnds)

---------------------------------------------------------------------------
(* The requests and the calendar data the model explores *)

\* Longest busy list of the primary calendar in the packing scenarios.
MaxBusy == 2

Req(len, ws, we, tz, spd, dts, mdl, hol, ids, sd) ==
    [ meetingLengthMinutes |-> len, workingHoursStart |-> ws, workingHoursEnd |-> we,
      timezone |-> tz, slotsPerDay |-> spd, daysToSearch |-> dts,
      maxDaysToLookAhead |-> mdl, bankHolidays |-> hol, calendarIds |-> ids,
      startDate |-> sd ]

BothCalendars == << "primary", "team" >>

\* A busy entry from minute m1 to minute m2 after the instant a.
Busy(a, m1, m2) == [ start |-> Some(a + m1), end |-> Some(a + m2) ]

\* Busy entries around the default working window of the day that starts at
\* a: before and across its opening, adjacent, overlapping, across its close.
DayEntries(a) ==
    { Busy(a, Hours(8), Hours(10)),  Busy(a, Hours(10), Hours(11)),
      Busy(a, Hours(11), Hours(12)), Busy(a, Hours(10) + 30, Hours(12) + 30),
      Busy(a, Hours(16), Hours(18)), Busy(a, Hours(9), Hours(17)) }

\* One entry that covers every day a walk can reach.
Blocked(a) == Busy(a, 0 - Days(3), Days(45))

\* Sequences without repetition of at most n elements of S.
RECURSIVE SeqsUpTo(_, _)
SeqsUpTo(S, n) ==
    IF n = 0 THEN { << >> }
    ELSE LET shorter == SeqsUpTo(S, n - 1)
         IN  shorter \cup { Append(q, x) : q \in shorter, x \in S }

DistinctSeqsUpTo(S, n) ==
    { q \in SeqsUpTo(S, n) : \A i, j \in 1..Len(q) : i # j => q[i] # q[j] }

World(p, t) == [ primary |-> p, team |-> t ]

PackingWorlds(a) ==
    { World(p, t) : p \in DistinctSeqsUpTo(DayEntries(a), MaxBusy),
                    t \in DistinctSeqsUpTo(DayEntries(a), 1) }

WalkWorlds(a) ==
    { World(<< >>, << >>), World(<< >>, << Blocked(a) >>),
      World(<< Busy(a, 0, Days(2)) >>, << >>) }

Scenario(v, host, clock, a, cals) ==
    [ variant |-> v, hostOffset |-> host, now |-> clock, args |-> a, calendars |-> cals ]

\* Monday .. Sunday of the week the scenarios start in.
Week == 7..13

SaoPaulo == ZoneOffset("America/Sao_Paulo")

\* One working day, many busy layouts.
PackingScenarios ==
    { Scenario(v, SaoPaulo, Days(6),
               Req(Some(len), Absent, we, Absent, spd, Some(1), Some(2), Absent,
                   Some(BothCalendars), Some(7)),
               w) :
        v \in Variants, len \in { 60, 90 }, we \in { Absent, Some(12) },
        spd \in { Absent, Some(2), Some(8) },
        w \in PackingWorlds(Midnight(7, SaoPaulo)) }

\* Many start days, horizons and holiday lists; free or blocked calendars.
WalkScenarios ==
    { Scenario(v, SaoPaulo, Days(6),
               Req(Some(60), Absent, Absent, Absent, Absent, dts, mdl, hol,
                   Some(BothCalendars), Some(d)),
               w) :
        v \in Variants, d \in Week, dts \in { Absent, Some(1), Some(2) },
        mdl \in { Absent, Some(1), Some(2), Some(5) },
        hol \in { Absent, Some({ 8 }), Some({ 7, 8, 9, 10, 11, 14 }) },
        w \in WalkWorlds(Midnight(7, SaoPaulo)) }

\* Fields absent, zero, negative or otherwise outside the request's shape.
ShapeScenarios ==
    { Scenario(v, SaoPaulo, Days(6),
               Req(len, ws, Absent, Absent, spd, dts, mdl, Absent, ids, Some(7)),
               w) :
        v \in Variants, len \in { Absent, Some(0), Some(-30) },
        ws \in { Absent, Some(0), Some(17) }, spd \in { Absent, Some(0) },
        dts \in { Absent, Some(0) }, mdl \in { Absent, Some(0) },
        ids \in { Absent, Some(<< >>), Some(BothCalendars) },
        w \in { World(<< >>, << >>),
                World(<< Busy(Midnight(7, SaoPaulo), Hours(10), Hours(11)) >>, << >>) } }

\* Host and request zones apart; the start date supplied or taken from the clock.
ZoneScenarios ==
    { Scenario(v, host, clock,
               Req(Some(60), Absent, Absent, tz, Some(2), Some(1), Some(2), Absent,
                   Absent, sd),
               w) :
        v \in Variants, host \in { Hours(-3), 0, Hours(9) },
        clock \in { Days(7) + Hours(1), Days(7) + Hours(13) },
        tz \in { Absent, Some("UTC"), Some("Asia/Tokyo") },
        sd \in { Absent, Some(8) },
        w \in { World(<< >>, << >>),
                World(<< Busy(Days(8), Hours(11), Hours(13)),
                         Busy(Days(8), Hours(1), Hours(3)) >>, << >>),
                World(<< Busy(Days(7), Hours(22), Hours(38)) >>, << >>) } }

\* Two days to fill, several slots a day, busy time on both days and overnight.
MultiDayScenarios ==
    { Scenario(v, SaoPaulo, Days(6),
               Req(Some(len), Absent, Absent, Absent, spd, Some(2), Some(4), Absent,
                   Some(BothCalendars), Some(d)),
               w) :
        v \in Variants, len \in { 60, 90 }, spd \in { Some(2), Some(3) }, d \in { 8, 11 },
        w \in { World(<< >>, << >>),
                World(<< Busy(Midnight(8, SaoPaulo), Hours(10), Hours(11)) >>,
                      << Busy(Midnight(8, SaoPaulo), Hours(33), Hours(34)) >>),
                World(<< Busy(Midnight(8, SaoPaulo), Hours(16), Hours(34)),
                         Busy(Midnight(7, SaoPaulo), Hours(9), Hours(10)) >>, << >>) } }

\* Busy entries as the provider may return them: whole, or with the start,
\* the end or both missing.
AnomalyEntries(a) ==
    { Busy(a, Hours(10), Hours(11)),
      [ start |-> Some(a + Hours(12)), end |-> Absent ],
      [ start |-> Absent, end |-> Some(a + Hours(14)) ],
      [ start |-> Absent, end |-> Absent ] }

AnomalyScenarios ==
    { Scenario(v, SaoPaulo, Days(6),
               Req(Some(60), Absent, Absent, Absent, Some(8), Some(1), Some(2), Absent,
                   Some(BothCalendars), Some(7)),
               World(p, t)) :
        v \in Variants,
        p \in SeqsUpTo(AnomalyEntries(Midnight(7, SaoPaulo)), 2),
        t \in SeqsUpTo(AnomalyEntries(Midnight(7, SaoPaulo)), 1) }

\* A bank holiday on the first or second day, hosts west of, at and east of UTC.
HolidayScenarios ==
    { Scenario(v, host, Days(6) + Hours(12),
               Req(Some(60), Absent, Absent, tz, Some(1), Some(2), Some(3), Some({ h }),
                   Absent, Some(8)),
               World(<< >>, << >>)) :
        v \in Variants, host \in { Hours(-3), 0, Hours(9) },
        tz \in { Absent, Some("UTC"), Some("Asia/Tokyo") }, h \in { 8, 9 } }

Scenarios ==
    PackingScenarios \cup WalkScenarios \cup ShapeScenarios \cup ZoneScenarios
        \cup MultiDayScenarios \cup AnomalyScenarios \cup HolidayScenarios

---------------------------------------------------------------------------
(* The handler as a state machine *)

\* cfg before the handler has run.
NoCfg == [ meetingLength |-> 0, workStartHour |-> 0, workEndHour |-> 0, timezone |-> "",
           slotsPerDay |-> 0, daysToSearch |-> 0, maxDaysToLookAhead |-> 0,
           bankHolidays |-> {}, calendarIds |-> << >> ]

NoCall == [ called |-> FALSE, busy |-> << >>, dayStart |-> 0, dayEnd |-> 0,
            meetingLength |-> 0, freeSlots |-> << >>,
            after |-> [ busy |-> << >>, dayStart |-> 0, dayEnd |-> 0 ] ]

\* No tool request served yet.
NoTool == [ seq |-> 0, name |-> "", handler |-> "", threw |-> "", isError |-> FALSE,
            issued |-> << >>, tools |-> {} ]

\* The Google account as the scheduling handler leaves it: untouched.
ServerAtRest ==
    /\ mailbox = 0 /\ events = {} /\ apiLog = << >> /\ lastTool = NoTool /\ outbox = << >>

\* No second invocation: the handler is called once.
NoCalls == << >>

NoFrames == << >>

Init ==
    \E sc \in Scenarios :
        /\ calls = NoCalls /\ frames = NoFrames
        /\ ServerAtRest
        /\ variant = sc.variant
        /\ hostOffset = sc.hostOffset
        /\ now = sc.now
        /\ calendars = sc.calendars
        /\ args = sc.args
        /\ pc = "idle"
        /\ cfg = NoCfg
        /\ startDate = 0
        /\ endDate = 0
        /\ busySlots = << >>
        /\ dayPointer = 0
        /\ daysWithSlotsFound = 0
        /\ suggestions = << >>
        /\ isError = FALSE
        /\ fetchCount = 0
        /\ examined = << >>
        /\ lastCall = NoCall

\* Lines up to the await: the constants, startDate, endDate, and the
\* freebusy.query request going out.
Call ==
    /\ pc = "idle"
    /\ cfg' = Defaults(args)
    /\ startDate' = ResolveStart(variant, args.startDate, cfg'.timezone, hostOffset, now)
    /\ endDate' = ResolveEnd(variant, startDate', cfg'.maxDaysToLookAhead,
                             cfg'.timezone, hostOffset)
    /\ fetchCount' = fetchCount + 1
    /\ pc' = "fetching"
    /\ UNCHANGED << mailbox, events, apiLog, lastTool, outbox, calls, frames, variant, hostOffset, now, calendars, args, busySlots, dayPointer,
                    daysWithSlotsFound, suggestions, isError, examined, lastCall >>

\* Mutant: the response is fetched once more before the walk.
FetchReturnRefetch ==
    /\ pc = "fetching"
    /\ busySlots' = BusyOf(cfg.calendarIds,
                           FreeBusyQuery(calendars, cfg.calendarIds, startDate, endDate))
    /\ suggestions' = << >>
    /\ daysWithSlotsFound' = 0
    /\ dayPointer' = startDate
    /\ fetchCount' = fetchCount + 1
    /\ pc' = "walking"
    /\ UNCHANGED << mailbox, events, apiLog, lastTool, outbox, calls, frames, variant, hostOffset, now, calendars, args, cfg,
                    startDate, endDate, isError, examined, lastCall >>

\* The await resolves: busySlots is built and the walk is set up.
FetchReturn ==
    /\ pc = "fetching"
    /\ busySlots' = BusyOf(cfg.calendarIds,
                           FreeBusyQuery(calendars, cfg.calendarIds, startDate, endDate))
    /\ suggestions' = << >>
    /\ daysWithSlotsFound' = 0
    /\ dayPointer' = startDate
    /\ pc' = "walking"
    /\ UNCHANGED << mailbox, events, apiLog, lastTool, outbox, calls, frames, variant, hostOffset, now, calendars, args, cfg, startDate, endDate,
                    isError, fetchCount, examined, lastCall >>

\* Mutant: the failed fetch is issued once more.
FetchFailRetry ==
    /\ pc = "fetching"
    /\ fetchCount < 2
    /\ isError' = TRUE
    /\ fetchCount' = fetchCount + 1
    /\ pc' = "fetching"
    /\ UNCHANGED << mailbox, events, apiLog, lastTool, outbox, calls, frames, variant, hostOffset, now, calendars, args, cfg, startDate, endDate,
                    busySlots, dayPointer, daysWithSlotsFound, suggestions,
                    examined, lastCall >>

\* The await rejects: the catch block returns the error result.
FetchFail ==
    /\ pc = "fetching"
    /\ isError' = TRUE
    /\ pc' = "done"
    /\ UNCHANGED << mailbox, events, apiLog, lastTool, outbox, calls, frames, variant, hostOffset, now, calendars, args, cfg, startDate, endDate,
                    busySlots, dayPointer, daysWithSlotsFound, suggestions, fetchCount,
                    examined, lastCall >>

\* One iteration of the while loop.
WalkDay ==
    /\ pc = "walking"
    /\ WalkOn(daysWithSlotsFound, cfg.daysToSearch, dayPointer, endDate)
    /\ examined' = Append(examined, PointerDay(variant, dayPointer, cfg.timezone, hostOffset))
    /\ IF IsWorkingDay(variant, dayPointer, cfg.bankHolidays, cfg.timezone, hostOffset)
       THEN LET dayStart == AtHour(variant, dayPointer, cfg.workStartHour, cfg.timezone, hostOffset)
                dayEnd == AtHour(variant, dayPointer, cfg.workEndHour, cfg.timezone, hostOffset)
                r == findFreeSlots(variant, busySlots, dayStart, dayEnd, cfg.meetingLength)
                after == InputsAfter(busySlots, dayStart, dayEnd)
            IN  /\ lastCall' = [ called |-> TRUE, busy |-> busySlots, dayStart |-> dayStart,
                                 dayEnd |-> dayEnd, meetingLength |-> cfg.meetingLength,
                                 freeSlots |-> r.freeSlots, after |-> after ]
                /\ busySlots' = after.busy
                /\ IF r.diverges
                   THEN /\ pc' = "hung"
                        /\ UNCHANGED << suggestions, daysWithSlotsFound, dayPointer >>
                   ELSE /\ pc' = "walking"
                        /\ suggestions' = suggestions
                                \o TakeSlots(variant, r.freeSlots, cfg.slotsPerDay)
                        /\ daysWithSlotsFound' =
                                IF CountsDay(variant, r.freeSlots)
                                THEN daysWithSlotsFound + 1 ELSE daysWithSlotsFound
                        /\ dayPointer' = dayPointer + Days(1)
       ELSE /\ dayPointer' = dayPointer + Days(1)
            /\ UNCHANGED << pc, suggestions, daysWithSlotsFound, lastCall, busySlots >>
    /\ UNCHANGED << mailbox, events, apiLog, lastTool, outbox, calls, frames, variant, hostOffset, now, calendars, args, cfg, startDate, endDate,
                    isError, fetchCount >>

\* The loop condition fails: the handler returns the suggestions.
Return ==
    /\ pc = "walking"
    /\ ~ WalkOn(daysWithSlotsFound, cfg.daysToSearch, dayPointer, endDate)
    /\ pc' = "done"
    /\ UNCHANGED << mailbox, events, apiLog, lastTool, outbox, calls, frames, variant, hostOffset, now, calendars, args, cfg, startDate, endDate,
                    busySlots, dayPointer, daysWithSlotsFound, suggestions, isError,
                    fetchCount, examined, lastCall >>

Next == Call \/ FetchReturn \/ FetchFail \/ WalkDay \/ Return

Spec == Init /\ [][Next]_vars

---------------------------------------------------------------------------
(* Vocabulary of the properties *)

Started == pc # "idle"

\* The busy intervals (start < end) of the calendars the request names.
RequestedBusy ==
    { e \in UNION { SeqRange(calendars[id]) :
                        id \in SeqRange(cfg.calendarIds) \cap DOMAIN calendars } :
        HasBothEnds(e) /\ DateOf(e.start) < DateOf(e.end) }

\* Two intervals share more than an end point.
Intersects(s1, e1, s2, e2) == s1 < e2 /\ s2 < e1

SlotHitsBusy(slot, e) == Intersects(slot.start, slot.end, DateOf(e.start), DateOf(e.end))

---------------------------------------------------------------------------
(* C1 *)

\* C1: for a meeting length > 0, no slot of the output intersects a busy
\* interval of any requested calendar; a slot may touch one at an end point.
C1_NoSlotInBusyTime ==
    (Started /\ cfg.meetingLength > 0) =>
        \A i \in 1..Len(suggestions) : \A e \in RequestedBusy :
            ~ SlotHitsBusy(suggestions[i], e)

\* A finished call that returned slots although the primary calendar holds
\* two overlapping entries in descending start order, the other calendar is
\* busy too, and a returned slot ends exactly where a busy interval starts.
C1_Witness ==
    /\ pc = "done" /\ ~ isError
    /\ cfg.meetingLength > 0
    /\ Len(suggestions) >= 2
    /\ Len(calendars.primary) = 2
    /\ HasBothEnds(calendars.primary[1]) /\ HasBothEnds(calendars.primary[2])
    /\ DateOf(calendars.primary[1].start) > DateOf(calendars.primary[2].start)
    /\ Intersects(DateOf(calendars.primary[1].start), DateOf(calendars.primary[1].end),
                  DateOf(calendars.primary[2].start), DateOf(calendars.primary[2].end))
    /\ Len(calendars.team) = 1
    /\ \E i \in 1..Len(suggestions) : \E e \in RequestedBusy :
            suggestions[i].end = DateOf(e.start)

---------------------------------------------------------------------------
(* C3 .. C6: the day-walk *)

\* Day 0 is a Monday: days 5 and 6 of each week are Saturday and Sunday.
IsWeekend(d) == d % 7 \in { 5, 6 }

\* A non-weekend day whose date is not a listed bank holiday.
EligibleDay(d) == ~ IsWeekend(d) /\ d \notin cfg.bankHolidays

\* How many of the days the loop body ran for were eligible days.
EligibleExamined == Cardinality({ i \in 1..Len(examined) : EligibleDay(examined[i]) })

\* The first day of the request, as a calendar day of the zone the walk uses.
FirstDay == PointerDay(variant, startDate, cfg.timezone, hostOffset)

\* The calendar day a slot lies on, in the zone the walk uses.
SlotDay(slot) == PointerDay(variant, slot.start, cfg.timezone, hostOffset)

\* A requested calendar is busy from before the first day to after the last
\* day any walk can reach.
FullyBlocked ==
    \E e \in RequestedBusy :
        DateOf(e.start) <= startDate /\ DateOf(e.end) >= endDate + Days(1)

Walked == pc \in { "walking", "done" } /\ ~ isError

\* C3: in part_001 every eligible day the walk has examined has incremented
\* daysWithSlotsFound by one, slot or no slot, and never past daysToSearch;
\* a finished walk over fully blocked days has examined daysToSearch eligible
\* days, unless the days ran out first, and returns no slot.
C3_EveryEligibleDayCounts ==
    (variant = "part_001" /\ Walked /\ cfg.daysToSearch >= 0) =>
        /\ daysWithSlotsFound = EligibleExamined
        /\ EligibleExamined <= cfg.daysToSearch
        /\ (pc = "done" /\ FullyBlocked) =>
              /\ suggestions = << >>
              /\ EligibleExamined = cfg.daysToSearch \/ dayPointer >= endDate

\* part_001 returned nothing after exactly three eligible, fully blocked
\* days, with days of the horizon left.
C3_Witness ==
    /\ variant = "part_001" /\ pc = "done" /\ ~ isError
    /\ cfg.daysToSearch = 3 /\ FullyBlocked
    /\ EligibleExamined = 3 /\ daysWithSlotsFound = 3
    /\ suggestions = << >>
    /\ dayPointer < endDate

\* C4 (as claimed): in index.ts and part_000 too every eligible day examined
\* counts, so with daysToSearch = 3 and every day blocked the walk ends after
\* three eligible days.
C4_Claim ==
    (variant \in { "index", "part_000" } /\ Walked /\ cfg.daysToSearch = 3 /\ FullyBlocked) =>
        /\ daysWithSlotsFound = EligibleExamined
        /\ EligibleExamined <= 3

\* C5 (as claimed): part_001 examines no day, and returns no slot on a day,
\* at or after the first day plus maxDaysToLookAhead.
C5_Claim ==
    (variant = "part_001" /\ Started) =>
        /\ \A i \in 1..Len(examined) : examined[i] < FirstDay + cfg.maxDaysToLookAhead
        /\ \A i \in 1..Len(suggestions) :
              SlotDay(suggestions[i]) < FirstDay + cfg.maxDaysToLookAhead

\* The days startDate .. startDate + maxDaysToLookAhead - 1.
HorizonDays == FirstDay .. (FirstDay + cfg.maxDaysToLookAhead - 1)

\* C6 (as claimed): in part_001 a weekend day or listed holiday never counts
\* and never receives a slot, and a horizon of such days only gives an empty
\* result.
C6_Claim ==
    (variant = "part_001" /\ Walked /\ cfg.meetingLength > 0) =>
        /\ daysWithSlotsFound <= EligibleExamined
        /\ \A i \in 1..Len(suggestions) : EligibleDay(SlotDay(suggestions[i]))
        /\ (pc = "done" /\ \A d \in HorizonDays : ~ EligibleDay(d)) => suggestions = << >>

---------------------------------------------------------------------------
(* C8 .. C10: the request's shape *)

\* A request field, read with the documented default when it is absent.
Given(x, d) == IF x = Absent THEN d ELSE x[1]

\* Non-positive meeting length, no calendar, or a window that does not open
\* before it closes.
InvalidShape(a) ==
    \/ Given(a.meetingLengthMinutes, 60) <= 0
    \/ Given(a.calendarIds, << "primary" >>) = << >>
    \/ Given(a.workingHoursStart, 9) >= Given(a.workingHoursEnd, 17)

\* C8 (as claimed): a request of invalid shape ends in an error result and
\* no free/busy fetch is ever issued for it.
C8_Claim ==
    InvalidShape(args) =>
        /\ fetchCount = 0
        /\ pc = "done" => isError

\* C9 (as claimed): with meetingLengthMinutes <= 0, index.ts and part_001
\* terminate and emit no slot.
C9_Claim ==
    (variant \in { "index", "part_001" } /\ Given(args.meetingLengthMinutes, 60) <= 0) =>
        /\ pc # "hung"
        /\ suggestions = << >>

\* C10 (as claimed): a supplied 0 is used as supplied: workingHoursStart = 0
\* opens the window at local midnight, slotsPerDay = 0 takes no slot,
\* daysToSearch = 0 and maxDaysToLookAhead = 0 examine no day.
C10_Claim ==
    /\ Started =>
            /\ args.workingHoursStart # Absent => cfg.workStartHour = args.workingHoursStart[1]
            /\ args.slotsPerDay # Absent => cfg.slotsPerDay = args.slotsPerDay[1]
            /\ args.daysToSearch # Absent => cfg.daysToSearch = args.daysToSearch[1]
            /\ args.maxDaysToLookAhead # Absent =>
                    cfg.maxDaysToLookAhead = args.maxDaysToLookAhead[1]
    /\ (args.workingHoursStart = Some(0) /\ lastCall.called) =>
            lastCall.dayStart = Midnight(examined[Len(examined)],
                                         WalkOffset(variant, cfg.timezone, hostOffset))
    /\ args.slotsPerDay = Some(0) => suggestions = << >>
    /\ args.daysToSearch = Some(0) => examined = << >>
    /\ args.maxDaysToLookAhead = Some(0) => examined = << >>

---------------------------------------------------------------------------
(* findFreeSlots on its own: one call on inputs drawn from a grid *)

\* Instants half an hour apart, from which the busy entries are drawn.
Ticks == { k * 30 : k \in 0..5 }

GridBusy == { Busy(0, p[1], p[2]) : p \in { q \in Ticks \X Ticks : q[1] < q[2] } }

\* [dayStart, dayEnd]: short windows inside the grid, one that is empty, one
\* that closes before it opens, and the default 09:00 - 17:00.
Windows == { << 30, 120 >>, << 30, 90 >>, << 60, 60 >>, << 90, 30 >>,
             << Hours(9), Hours(17) >> }

Lengths == { 30, 60, 90 }

NoArgs == Req(Absent, Absent, Absent, Absent, Absent, Absent, Absent, Absent, Absent, Absent)

\* Busy entries of a working day: before, inside, across and after the default
\* window, adjacent and overlapping ones among them.
DayBusy ==
    { Busy(0, Hours(8), Hours(9) + 30), Busy(0, Hours(10), Hours(11)),
      Busy(0, Hours(11), Hours(12)), Busy(0, Hours(10) + 30, Hours(13)),
      Busy(0, Hours(16), Hours(18)) }

\* The (busy list, window) pairs findFreeSlots is called with.
SlotInputs ==
    (SeqsUpTo(GridBusy, MaxBusy) \X Windows)
        \cup (SeqsUpTo(DayBusy, MaxBusy) \X { << Hours(9), Hours(17) >> })

InitSlots ==
    /\ variant \in Variants
    /\ calls = NoCalls /\ frames = NoFrames
    /\ ServerAtRest
    /\ \E inp \in SlotInputs, len \in Lengths :
        LET b == inp[1]
            w == inp[2]
        IN
          lastCall = [ called |-> FALSE, busy |-> b, dayStart |-> w[1], dayEnd |-> w[2],
                       meetingLength |-> len, freeSlots |-> << >>,
                       after |-> [ busy |-> b, dayStart |-> w[1], dayEnd |-> w[2] ] ]
    /\ pc = "calling"
    /\ hostOffset = 0 /\ now = 0 /\ calendars = World(<< >>, << >>)
    /\ args = NoArgs /\ cfg = NoCfg
    /\ startDate = 0 /\ endDate = 0 /\ busySlots = << >> /\ dayPointer = 0
    /\ daysWithSlotsFound = 0 /\ suggestions = << >> /\ isError = FALSE
    /\ fetchCount = 0 /\ examined = << >>

\* The call findFreeSlots(busySlots, dayStart, dayEnd, meetingLengthMinutes).
CallFindFreeSlots ==
    /\ pc = "calling"
    /\ LET r == findFreeSlots(variant, lastCall.busy, lastCall.dayStart, lastCall.dayEnd,
                              lastCall.meetingLength)
       IN  /\ lastCall' = [ lastCall EXCEPT !.called = TRUE, !.freeSlots = r.freeSlots,
                                          !.after = InputsAfter(lastCall.busy, lastCall.dayStart,
                                                                lastCall.dayEnd) ]
           /\ pc' = IF r.diverges THEN "hung" ELSE "returned"
    /\ UNCHANGED << mailbox, events, apiLog, lastTool, outbox, calls, frames, variant, hostOffset, now, calendars, args, cfg, startDate, endDate,
                    busySlots, dayPointer, daysWithSlotsFound, suggestions, isError,
                    fetchCount, examined >>

NextSlots == CallFindFreeSlots

SpecSlots == InitSlots /\ [][NextSlots]_vars

---------------------------------------------------------------------------
(* C2, C7 *)

\* C2: for a meeting length > 0, every slot findFreeSlots returns lies
\* inside [dayStart, dayEnd], whatever the busy entries.
C2_SlotsInsideWindow ==
    (lastCall.called /\ lastCall.meetingLength > 0) =>
        \A i \in 1..Len(lastCall.freeSlots) :
            /\ lastCall.dayStart <= lastCall.freeSlots[i].start
            /\ lastCall.freeSlots[i].end <= lastCall.dayEnd

\* A call that returned a slot for a day with one busy entry across the
\* window's opening and one across its close.
C2_Witness ==
    /\ lastCall.called
    /\ Len(lastCall.freeSlots) >= 1
    /\ \E i, j \in 1..Len(lastCall.busy) :
          /\ DateOf(lastCall.busy[i].start) < lastCall.dayStart
          /\ DateOf(lastCall.busy[i].end) > lastCall.dayStart
          /\ DateOf(lastCall.busy[j].start) < lastCall.dayEnd
          /\ DateOf(lastCall.busy[j].end) > lastCall.dayEnd

\* No busy entry of the call shares more than an end point with the window.
WindowFree ==
    \A i \in 1..Len(lastCall.busy) :
        ~ Intersects(DateOf(lastCall.busy[i].start), DateOf(lastCall.busy[i].end),
                     lastCall.dayStart, lastCall.dayEnd)

---------------------------------------------------------------------------
(* C11, C12, C14, C15, C16: the output of one call *)

Min(a, b) == IF a <= b THEN a ELSE b

\* C11: for slotsPerDay >= 1, a day that went through findFreeSlots appends
\* to the output exactly the first min(slotsPerDay, k) of its k packed slots,
\* in their order; a skipped day appends nothing.
C11_DayContribution ==
    [][ (pc = "walking" /\ pc' = "walking" /\ cfg.slotsPerDay >= 1) =>
            IF lastCall' # lastCall
            THEN suggestions' = suggestions \o
                    SubSeq(lastCall'.freeSlots, 1,
                           Min(cfg.slotsPerDay, Len(lastCall'.freeSlots)))
            ELSE suggestions' = suggestions ]_vars

\* A finished call whose only examined working day packed more than
\* slotsPerDay = 2 slots and contributed the first two.
C11_Witness ==
    /\ pc = "done" /\ ~ isError
    /\ cfg.slotsPerDay = 2
    /\ lastCall.called /\ Len(lastCall.freeSlots) > 2
    /\ daysWithSlotsFound = 1
    /\ suggestions = SubSeq(lastCall.freeSlots, 1, 2)

\* C12: when the fetch fails the call ends with the error result after that
\* one fetch: no second fetch, no day examined, no slot.
C12_FetchFailureAborts ==
    isError =>
        /\ pc = "done"
        /\ fetchCount = 1
        /\ examined = << >>
        /\ suggestions = << >>

\* The fetch failed although the calendars held data for the request.
C12_Witness ==
    /\ isError /\ pc = "done"
    /\ Len(calendars.primary) >= 1
    /\ cfg.daysToSearch >= 1

\* C14: for a meeting length > 0, every slot of the output lasts exactly
\* meetingLengthMinutes.
C14_SlotsHaveMeetingLength ==
    (Started /\ Given(args.meetingLengthMinutes, 60) > 0) =>
        \A i \in 1..Len(suggestions) :
            suggestions[i].end - suggestions[i].start = Given(args.meetingLengthMinutes, 60)

\* Two or more 90-minute slots were returned around busy time.
C14_Witness ==
    /\ pc = "done" /\ ~ isError
    /\ args.meetingLengthMinutes = Some(90)
    /\ Len(suggestions) >= 2
    /\ Len(busySlots) >= 1

\* Positive meeting length, window hours within the day, opening before closing.
ValidRequest ==
    /\ cfg.meetingLength > 0
    /\ 0 <= cfg.workStartHour /\ cfg.workStartHour < cfg.workEndHour /\ cfg.workEndHour <= 23

\* C15: for a valid request the output is chronological: each slot starts at
\* or after the end of the slot before it.
C15_Chronological ==
    (Started /\ ValidRequest) =>
        \A i \in 1..(Len(suggestions) - 1) : suggestions[i].end <= suggestions[i + 1].start

\* Four or more slots over two days, two of them back to back, with busy time.
C15_Witness ==
    /\ pc = "done" /\ ~ isError /\ ValidRequest
    /\ Len(suggestions) >= 4
    /\ SlotDay(suggestions[1]) # SlotDay(suggestions[Len(suggestions)])
    /\ \E i \in 1..(Len(suggestions) - 1) : suggestions[i].end = suggestions[i + 1].start
    /\ Len(busySlots) >= 1

\* The zone the request names, America/Sao_Paulo when it names none.
RequestZone == ZoneOffset(Given(args.timezone, "America/Sao_Paulo"))

\* C16 (as claimed): the first day of the walk is the supplied startDate
\* itself, or, with none supplied, the current date in the request zone plus
\* one day.
C16_Claim ==
    Started =>
        FirstDay = IF args.startDate # Absent THEN args.startDate[1]
                   ELSE LocalDay(now, RequestZone) + 1

---------------------------------------------------------------------------
(* C13: the handler as a function of its inputs *)

\* The while loop run to its end from (pointer, found, acc): the suggestions
\* returned, or hung when a findFreeSlots call does not return.
RECURSIVE Walk(_, _, _, _, _, _, _, _)
Walk(v, c, host, busy, pointer, end, found, acc) ==
    IF ~ WalkOn(found, c.daysToSearch, pointer, end)
    THEN [ suggestions |-> acc, hung |-> FALSE ]
    ELSE IF IsWorkingDay(v, pointer, c.bankHolidays, c.timezone, host)
    THEN LET dayStart == AtHour(v, pointer, c.workStartHour, c.timezone, host)
             dayEnd == AtHour(v, pointer, c.workEndHour, c.timezone, host)
             r == findFreeSlots(v, busy, dayStart, dayEnd, c.meetingLength)
         IN  IF r.diverges
             THEN [ suggestions |-> acc, hung |-> TRUE ]
             ELSE Walk(v, c, host, busy, pointer + Days(1), end,
                       IF CountsDay(v, r.freeSlots) THEN found + 1 ELSE found,
                       acc \o TakeSlots(v, r.freeSlots, c.slotsPerDay))
    ELSE Walk(v, c, host, busy, pointer + Days(1), end, found, acc)

\* handleMeetingSuggestion with a fetch that succeeds: arguments a, host
\* zone, wall clock at the call, and the calendars the fetch reads.
Outcome(v, a, host, clock, cals) ==
    LET c == Defaults(a)
        start == ResolveStart(v, a.startDate, c.timezone, host, clock)
        end == ResolveEnd(v, start, c.maxDaysToLookAhead, c.timezone, host)
        busy == BusyOf(c.calendarIds, FreeBusyQuery(cals, c.calendarIds, start, end))
    IN  Walk(v, c, host, busy, start, end, 0, << >>)

\* An entry that carries both a start and an end.
Complete(e) == Len(e.start) = 1 /\ Len(e.end) = 1

\* The calendars with every incomplete entry removed.
Clean(cals) == [ id \in DOMAIN cals |-> SelectSeq(cals[id], Complete) ]

\* C13: entries missing a start or an end are dropped: after a fetch that
\* returned, busySlots is what the response without those entries gives, and
\* the result of the call is the result for the response without them.
C13_IncompleteEntriesDropped ==
    /\ (pc \in { "walking", "hung", "done" } /\ ~ isError) =>
            busySlots = BusyOf(cfg.calendarIds,
                               FreeBusyQuery(Clean(calendars), cfg.calendarIds,
                                             startDate, endDate))
    /\ (pc = "done" /\ ~ isError) =>
            suggestions = Outcome(variant, args, hostOffset, now, Clean(calendars)).suggestions

\* A call succeeded with slots although the response held, next to a complete
\* entry, an entry without end and one without start.
C13_Witness ==
    /\ pc = "done" /\ ~ isError
    /\ \E i \in 1..Len(calendars.primary) :
            calendars.primary[i].start # Absent /\ calendars.primary[i].end = Absent
    /\ \E id \in DOMAIN calendars : \E i \in 1..Len(calendars[id]) :
            calendars[id][i].start = Absent
    /\ Len(busySlots) >= 1
    /\ Len(suggestions) >= 2

---------------------------------------------------------------------------
(* C19, C20: what findFreeSlots returns, gap by gap *)

\* Instant g is covered by no busy interval.
FreeAt(g, busy) ==
    \A i \in 1..Len(busy) : ~ (DateOf(busy[i].start) <= g /\ g < DateOf(busy[i].end))

\* The starts of the maximal free gaps of the window [dayStart, dayEnd):
\* dayStart or the end of a busy interval, when free.
GapStarts(busy, dayStart, dayEnd) ==
    { g \in { dayStart } \cup { DateOf(busy[i].end) : i \in 1..Len(busy) } :
        dayStart <= g /\ g < dayEnd /\ FreeAt(g, busy) }

\* The end of the free gap that starts at g: the next busy start, or dayEnd.
GapEnd(g, busy, dayEnd) ==
    LET stops == { dayEnd } \cup
                 { DateOf(busy[i].start) : i \in { k \in 1..Len(busy) :
                        DateOf(busy[k].start) > g /\ DateOf(busy[k].start) < dayEnd } }
    IN  CHOOSE m \in stops : \A n \in stops : m <= n

\* floor(gap / L) slots back to back from the start of every maximal free gap.
GapSlots(busy, dayStart, dayEnd, L) ==
    UNION { { Slot(g + (i - 1) * L, L) : i \in 1..((GapEnd(g, busy, dayEnd) - g) \div L) } :
            g \in GapStarts(busy, dayStart, dayEnd) }

\* The returned slots are those of GapSlots, each once, in increasing order.
PackedPerGap ==
    /\ SeqRange(lastCall.freeSlots)
            = GapSlots(lastCall.busy, lastCall.dayStart, lastCall.dayEnd, lastCall.meetingLength)
    /\ \A i \in 1..(Len(lastCall.freeSlots) - 1) :
            lastCall.freeSlots[i].start < lastCall.freeSlots[i + 1].start

\* C19: for a meeting length > 0 and busy intervals with start < end,
\* findFreeSlots of part_001 returns exactly floor(gap / length) back-to-back
\* slots from the start of each maximal free gap of the window.
C19_FloorPerMaximalGap ==
    (variant = "part_001" /\ pc = "returned") => PackedPerGap

\* The example: length 60, window 9-17, busy 10:00-11:00 gives the 7 slots
\* 09-10, 11-12, ..., 16-17.
C19_Witness ==
    /\ variant = "part_001" /\ pc = "returned"
    /\ lastCall.meetingLength = 60
    /\ lastCall.dayStart = Hours(9) /\ lastCall.dayEnd = Hours(17)
    /\ lastCall.busy = << Busy(0, Hours(10), Hours(11)) >>
    /\ lastCall.freeSlots =
            << Slot(Hours(9), 60) >> \o [ i \in 1..6 |-> Slot(Hours(10 + i), 60) ]

\* C20 (as claimed): findFreeSlots of index.ts packs floor(gap / length)
\* back-to-back slots into every gap.
C20_Claim ==
    (variant = "index" /\ pc = "returned") => PackedPerGap

---------------------------------------------------------------------------
(* Two invocations of meeting_suggestion in one server process *)

\* Mutant: the locals are fields of the server object, one set for all calls.
FrameShared(i) == 1

\* The activation record of invocation i: const/let declared inside the
\* async method belong to the call that declared them.
Frame(i) == i

Invocations == 1..2

\* Wall-clock days that may pass while the two invocations run.
MaxTicks == 2

\* Sunday noon of the week before the scenarios' week.
PairClock == Days(6) + Hours(12)

PairRequests ==
    { Req(Some(60), Absent, Absent, Absent, Some(2), Some(1), Some(3), Absent,
          Some(BothCalendars), Some(9)),
      Req(Some(90), Absent, Absent, Absent, Some(2), Some(2), Some(3), Absent,
          Some(BothCalendars), Some(10)),
      Req(Some(60), Absent, Absent, Absent, Some(2), Some(1), Some(3), Absent,
          Some(BothCalendars), Absent) }

PairWorlds ==
    { World(<< >>, << >>),
      World(<< Busy(Midnight(8, SaoPaulo), Hours(9), Hours(11)),
               Busy(Midnight(10, SaoPaulo), Hours(9), Hours(10)) >>,
            << Busy(Midnight(9, SaoPaulo), Hours(9), Hours(10)) >>) }

NoFrame == [ cfg |-> NoCfg, startDate |-> 0, endDate |-> 0 ]

InitPair ==
    /\ variant \in Variants
    /\ hostOffset = SaoPaulo
    /\ now = PairClock
    /\ calendars \in PairWorlds
    /\ calls \in [ Invocations ->
                    { [ pc |-> "idle", args |-> a, clock |-> 0, overlapped |-> FALSE,
                        suggestions |-> << >>, isError |-> FALSE ] : a \in PairRequests } ]
    /\ frames = [ f \in Invocations |-> NoFrame ]
    /\ ServerAtRest
    /\ args = NoArgs /\ pc = "serving" /\ cfg = NoCfg
    /\ startDate = 0 /\ endDate = 0 /\ busySlots = << >> /\ dayPointer = 0
    /\ daysWithSlotsFound = 0 /\ suggestions = << >> /\ isError = FALSE
    /\ fetchCount = 0 /\ examined = << >> /\ lastCall = NoCall

\* A call that never returns holds the only thread: nothing else runs.
Responsive == \A j \in Invocations : calls[j].pc # "hung"

SingleCallIdle ==
    UNCHANGED << mailbox, events, apiLog, lastTool, outbox, args, pc, cfg, startDate, endDate, busySlots, dayPointer,
                 daysWithSlotsFound, suggestions, isError, fetchCount, examined, lastCall >>

\* Request i is dispatched: the handler runs up to the await.
PairCall(i) ==
    /\ Responsive
    /\ calls[i].pc = "idle"
    /\ LET a == calls[i].args
           c == Defaults(a)
           start == ResolveStart(variant, a.startDate, c.timezone, hostOffset, now)
           end == ResolveEnd(variant, start, c.maxDaysToLookAhead, c.timezone, hostOffset)
       IN  frames' = [ frames EXCEPT ![Frame(i)] =
                            [ cfg |-> c, startDate |-> start, endDate |-> end ] ]
    /\ calls' = [ calls EXCEPT ![i].pc = "fetching", ![i].clock = now,
                               ![i].overlapped =
                                    \E j \in Invocations : j # i /\ calls[j].pc = "fetching" ]
    /\ UNCHANGED << variant, hostOffset, now, calendars >>
    /\ SingleCallIdle

\* The fetch of invocation i resolves: the rest of the handler runs to its
\* return without yielding.
PairFetchReturn(i) ==
    /\ Responsive
    /\ calls[i].pc = "fetching"
    /\ LET f == frames[Frame(i)]
           busy == BusyOf(f.cfg.calendarIds,
                          FreeBusyQuery(calendars, f.cfg.calendarIds, f.startDate, f.endDate))
           r == Walk(variant, f.cfg, hostOffset, busy, f.startDate, f.endDate, 0, << >>)
       IN  calls' = [ calls EXCEPT ![i].pc = IF r.hung THEN "hung" ELSE "done",
                                   ![i].suggestions = r.suggestions ]
    /\ UNCHANGED << frames, variant, hostOffset, now, calendars >>
    /\ SingleCallIdle

\* The fetch of invocation i rejects.
PairFetchFail(i) ==
    /\ Responsive
    /\ calls[i].pc = "fetching"
    /\ calls' = [ calls EXCEPT ![i].pc = "done", ![i].isError = TRUE ]
    /\ UNCHANGED << frames, variant, hostOffset, now, calendars >>
    /\ SingleCallIdle

\* A day passes on the wall clock.
Tick ==
    /\ now < PairClock + Days(MaxTicks)
    /\ now' = now + Days(1)
    /\ UNCHANGED << mailbox, events, apiLog, lastTool, outbox, calls, frames, variant, hostOffset, calendars >>
    /\ SingleCallIdle

NextPair ==
    \/ \E i \in Invocations : PairCall(i)
    \/ \E i \in Invocations : PairFetchReturn(i)
    \/ \E i \in Invocations : PairFetchFail(i)
    \/ Tick

SpecPair == InitPair /\ [][NextPair]_vars

---------------------------------------------------------------------------
(* C17, C18 *)

Succeeded(i) == calls[i].pc = "done" /\ ~ calls[i].isError

\* C17: two invocations with identical arguments that include an explicit
\* startDate, reading identical busy data, return identical sequences,
\* whenever each was called and whatever ran before.
C17_SameInputsSameOutput ==
    (/\ Succeeded(1) /\ Succeeded(2)
     /\ calls[1].args = calls[2].args
     /\ calls[1].args.startDate # Absent)
        => calls[1].suggestions = calls[2].suggestions

\* The same request with a startDate was served on two different days, with
\* busy data, and returned slots both times.
C17_Witness ==
    /\ Succeeded(1) /\ Succeeded(2)
    /\ calls[1].args = calls[2].args
    /\ calls[1].args.startDate # Absent
    /\ LocalDay(calls[1].clock, SaoPaulo) # LocalDay(calls[2].clock, SaoPaulo)
    /\ Len(calendars.primary) >= 1
    /\ Len(calls[1].suggestions) >= 1

\* C18: whatever the interleaving at the await, each invocation returns what
\* it would return run alone with its arguments, its clock and the same data.
C18_InvocationsIndependent ==
    \A i \in DOMAIN calls :
        Succeeded(i) =>
            calls[i].suggestions
                = Outcome(variant, calls[i].args, hostOffset, calls[i].clock, calendars).suggestions

\* Invocation 2 was dispatched while invocation 1 awaited its fetch; they had
\* different arguments and returned different, non-empty results.
C18_Witness ==
    /\ Succeeded(1) /\ Succeeded(2)
    /\ calls[2].overlapped
    /\ calls[1].args # calls[2].args
    /\ calls[1].suggestions # << >> /\ calls[2].suggestions # << >>
    /\ calls[1].suggestions # calls[2].suggestions

---------------------------------------------------------------------------
(* C21, C22: native Date in a host whose zone is not the request zone *)

NativeDate == variant \in { "index", "part_000" }

\* C21 (as claimed): in index.ts and part_000 a day of the walk reaches
\* findFreeSlots exactly when it is a weekday whose calendar date, the date the
\* walk is on, is not listed in bankHolidays, whatever the host's offset.
C21_Claim ==
    [][ (NativeDate /\ pc = "walking" /\ pc' \in { "walking", "hung" }) =>
            LET d == PointerDay(variant, dayPointer, cfg.timezone, hostOffset)
            IN  (lastCall' # lastCall) <=> (~ IsWeekend(d) /\ d \notin cfg.bankHolidays) ]_vars

\* Slot s, read in the zone of offset off, lies inside [ws:00, we:00] of the
\* calendar day it starts on.
InWorkingHours(s, off, ws, we) ==
    LET d == LocalDay(s.start, off)
    IN  /\ s.start >= Midnight(d, off) + Hours(ws)
        /\ s.end <= Midnight(d, off) + Hours(we)

\* C22 (as claimed): in index.ts every returned slot, read in the request
\* timezone, starts at or after workingHoursStart:00 and ends at or before
\* workingHoursEnd:00, also when the host's zone is not the request zone.
C22_Claim ==
    (variant = "index" /\ Started /\ ValidRequest) =>
        \A i \in 1..Len(suggestions) :
            InWorkingHours(suggestions[i], ZoneOffset(cfg.timezone),
                           cfg.workStartHour, cfg.workEndHour)

---------------------------------------------------------------------------
(* C23: the fetch *)

AfterFetch == pc \in { "walking", "hung", "done" } /\ ~ isError

\* C23: a call whose fetch succeeded has issued exactly one fetch, for the
\* whole horizon [startDate, endDate], before any day was examined; the count
\* stays one however many days the walk examines.
C23_OneFetchBeforeWalk ==
    /\ pc = "idle" => fetchCount = 0
    /\ pc = "fetching" => (fetchCount = 1 /\ examined = << >> /\ ~ lastCall.called)
    /\ examined # << >> => AfterFetch
    /\ AfterFetch =>
        /\ fetchCount = 1
        /\ busySlots = BusyOf(cfg.calendarIds,
                              FreeBusyQuery(calendars, cfg.calendarIds, startDate, endDate))
        /\ \A i \in 1..Len(examined) :
            LET m == Midnight(examined[i], WalkOffset(variant, cfg.timezone, hostOffset))
            IN  startDate <= m /\ m < endDate

\* A finished call that examined three days or more, over busy data, after
\* its one fetch.
C23_Witness ==
    /\ pc = "done" /\ ~ isError
    /\ fetchCount = 1
    /\ Len(examined) >= 3
    /\ Len(busySlots) >= 1
    /\ Len(suggestions) >= 1

---------------------------------------------------------------------------
(* C24: findFreeSlots and its inputs *)

---------------------------------------------------------------------------
(* The server: ListTools, CallTool and the tool handlers *)

\* Tool requests served in one run.
MaxToolCalls == 2

AllTools ==
    { "list_emails", "search_emails", "send_email", "modify_email", "list_events",
      "create_event", "meeting_suggestion" }

\* The names a client may send: the tools of the fullest variant and names no
\* variant knows.
RequestNames == AllTools \cup { "delete_event", "update_event", "unknown_tool" }

\* The `tools` array the ListTools handler returns.
Advertised(v) == IF v = "index" THEN { "meeting_suggestion" } ELSE AllTools

\* Mutant: the switch has no case for modify_email.
DispatchWithoutModify(v, name) ==
    IF v = "index"
    THEN (IF name = "meeting_suggestion" THEN "handleMeetingSuggestion" ELSE "")
    ELSE CASE name = "list_emails" -> "handleListEmails"
           [] name = "search_emails" -> "handleSearchEmails"
           [] name = "send_email" -> "handleSendEmail"
           [] name = "list_events" -> "handleListEvents"
           [] name = "create_event" -> "handleCreateEvent"
           [] name = "meeting_suggestion" -> "handleMeetingSuggestion"
           [] OTHER -> ""

\* The switch of the CallTool handler: the method a name is dispatched to,
\* "" for the default branch.
Dispatch(v, name) ==
    IF v = "index"
    THEN (IF name = "meeting_suggestion" THEN "handleMeetingSuggestion" ELSE "")
    ELSE CASE name = "list_emails" -> "handleListEmails"
           [] name = "search_emails" -> "handleSearchEmails"
           [] name = "send_email" -> "handleSendEmail"
           [] name = "modify_email" -> "handleModifyEmail"
           [] name = "list_events" -> "handleListEvents"
           [] name = "create_event" -> "handleCreateEvent"
           [] name = "meeting_suggestion" -> "handleMeetingSuggestion"
           [] OTHER -> ""

\* A line of the message as the pieces of its template literal; the line is
\* the empty string, falsy, when every piece is empty.
Truthy(line) == \E i \in 1..Len(line) : line[i] # ""

\* cc ? `Cc: ${cc}` : ""
OptionalHeader(name, value) ==
    IF value # Absent /\ value[1] # "" THEN << name, value[1] >> ELSE << "" >>

\* The array of lines after .filter(Boolean); join("\r\n") puts one line
\* break between consecutive elements.
MessageLines(to, subject, body, cc, bcc) ==
    SelectSeq(<< << "Content-Type: text/html; charset=utf-8" >>,
                 << "MIME-Version: 1.0" >>,
                 << "To: ", to >>,
                 OptionalHeader("Cc: ", cc),
                 OptionalHeader("Bcc: ", bcc),
                 << "Subject: ", subject >>,
                 << "" >>,
                 << body >> >>, Truthy)

SeedEvents == { {}, { [ id |-> 1, summary |-> "standup" ] } }

Summaries == { "standup", "review" }

InitServer ==
    /\ variant \in Variants
    /\ mailbox \in 0..2
    /\ events \in SeedEvents
    /\ apiLog = << >> /\ lastTool = NoTool /\ outbox = << >>
    /\ calls = NoCalls /\ frames = NoFrames
    /\ hostOffset = 0 /\ now = 0 /\ calendars = World(<< >>, << >>)
    /\ args = NoArgs /\ pc = "dispatching" /\ cfg = NoCfg
    /\ startDate = 0 /\ endDate = 0 /\ busySlots = << >> /\ dayPointer = 0
    /\ daysWithSlotsFound = 0 /\ suggestions = << >> /\ isError = FALSE
    /\ fetchCount = 0 /\ examined = << >> /\ lastCall = NoCall

SchedulerIdle ==
    UNCHANGED << variant, hostOffset, now, calendars, args, pc, cfg, startDate, endDate,
                 busySlots, dayPointer, daysWithSlotsFound, suggestions, isError,
                 fetchCount, examined, lastCall, calls, frames, mailbox >>

\* A CallTool request for `name` that the switch sends to `handler`, which
\* issues the API calls `issued`; ok is whether the API answered.
Served(name, handler, issued, ok) ==
    /\ lastTool.seq < MaxToolCalls
    /\ Dispatch(variant, name) = handler
    /\ lastTool' = [ seq |-> lastTool.seq + 1, name |-> name, handler |-> handler,
                     threw |-> "", isError |-> ~ ok, issued |-> issued, tools |-> {} ]
    /\ apiLog' = apiLog \o issued

ListTools ==
    /\ lastTool.seq < MaxToolCalls
    /\ lastTool' = [ seq |-> lastTool.seq + 1, name |-> "tools/list", handler |-> "",
                     threw |-> "", isError |-> FALSE, issued |-> << >>,
                     tools |-> Advertised(variant) ]
    /\ UNCHANGED << events, apiLog, outbox >>
    /\ SchedulerIdle

\* The default branch: throw new McpError(ErrorCode.MethodNotFound, ...).
CallUnknown(name) ==
    /\ lastTool.seq < MaxToolCalls
    /\ Dispatch(variant, name) = ""
    /\ lastTool' = [ seq |-> lastTool.seq + 1, name |-> name, handler |-> "",
                     threw |-> "MethodNotFound", isError |-> FALSE, issued |-> << >>,
                     tools |-> {} ]
    /\ UNCHANGED << events, apiLog, outbox >>
    /\ SchedulerIdle

\* messages.list, then messages.get for each message listed.
ListAndGet(ok) ==
    << "gmail.users.messages.list" >> \o
        (IF ok THEN [ i \in 1..mailbox |-> "gmail.users.messages.get" ] ELSE << >>)

HandleListEmails(ok) ==
    /\ Served("list_emails", "handleListEmails", ListAndGet(ok), ok)
    /\ UNCHANGED << events, outbox >>
    /\ SchedulerIdle

HandleSearchEmails(ok) ==
    /\ Served("search_emails", "handleSearchEmails", ListAndGet(ok), ok)
    /\ UNCHANGED << events, outbox >>
    /\ SchedulerIdle

HandleSendEmail(to, subject, body, cc, bcc, ok) ==
    /\ Served("send_email", "handleSendEmail", << "gmail.users.messages.send" >>, ok)
    /\ outbox' = IF ok
                 THEN Append(outbox, [ to |-> to, subject |-> subject, body |-> body,
                                       cc |-> cc, bcc |-> bcc,
                                       lines |-> MessageLines(to, subject, body, cc, bcc) ])
                 ELSE outbox
    /\ UNCHANGED events
    /\ SchedulerIdle

HandleModifyEmail(ok) ==
    /\ Served("modify_email", "handleModifyEmail", << "gmail.users.messages.modify" >>, ok)
    /\ UNCHANGED << events, outbox >>
    /\ SchedulerIdle

NewEvent(summary) == [ id |-> Cardinality(events) + 1, summary |-> summary ]

\* Mutant: an event with the same summary is deleted before the insert.
HandleCreateEventReplacing(summary, ok) ==
    /\ Served("create_event", "handleCreateEvent",
              << "calendar.events.delete", "calendar.events.insert" >>, ok)
    /\ events' = IF ok
                 THEN { e \in events : e.summary # summary } \cup { NewEvent(summary) }
                 ELSE events
    /\ UNCHANGED outbox
    /\ SchedulerIdle

HandleCreateEvent(summary, ok) ==
    /\ Served("create_event", "handleCreateEvent", << "calendar.events.insert" >>, ok)
    /\ events' = IF ok THEN events \cup { NewEvent(summary) } ELSE events
    /\ UNCHANGED outbox
    /\ SchedulerIdle

HandleListEvents(ok) ==
    /\ Served("list_events", "handleListEvents", << "calendar.events.list" >>, ok)
    /\ UNCHANGED << events, outbox >>
    /\ SchedulerIdle

\* meeting_suggestion seen from the API: its one freebusy.query.
HandleMeetingSuggestion(ok) ==
    /\ Served("meeting_suggestion", "handleMeetingSuggestion",
              << "calendar.freebusy.query" >>, ok)
    /\ UNCHANGED << events, outbox >>
    /\ SchedulerIdle

Recipients == { Absent, Some(""), Some("c@example.org") }

NextServer ==
    \/ ListTools
    \/ \E name \in RequestNames : CallUnknown(name)
    \/ \E ok \in BOOLEAN : HandleListEmails(ok)
    \/ \E ok \in BOOLEAN : HandleSearchEmails(ok)
    \/ \E subject \in { "", "hello" }, body \in { "", "text" }, cc \in Recipients,
          bcc \in { Absent, Some("b@example.org") }, ok \in BOOLEAN :
            HandleSendEmail("a@example.org", subject, body, cc, bcc, ok)
    \/ \E ok \in BOOLEAN : HandleModifyEmail(ok)
    \/ \E summary \in Summaries, ok \in BOOLEAN : HandleCreateEvent(summary, ok)
    \/ \E ok \in BOOLEAN : HandleListEvents(ok)
    \/ \E ok \in BOOLEAN : HandleMeetingSuggestion(ok)

SpecServer == InitServer /\ [][NextServer]_vars

---------------------------------------------------------------------------
(* C25, C26, C27 *)

CalendarReads == { "calendar.freebusy.query", "calendar.events.list" }

\* The calendar calls issued so far and by the last request are the allowed ones.
OnlyInsertWrites ==
    /\ \A i \in 1..Len(apiLog) :
            apiLog[i] \notin { "calendar.events.delete", "calendar.events.update",
                               "calendar.events.patch" }
    /\ lastTool.name \in { "meeting_suggestion", "list_events" } =>
            \A i \in 1..Len(lastTool.issued) : lastTool.issued[i] \in CalendarReads
    /\ (\E i \in 1..Len(lastTool.issued) : lastTool.issued[i] = "calendar.events.insert") =>
            lastTool.name = "create_event"

\* C25: whatever tools are called, every calendar event stays as it is: no
\* step removes or changes one, the only calendar write issued is
\* events.insert by create_event, and meeting_suggestion and list_events
\* issue only reads.
C25_NoEventDeletedOrModified ==
    [][ events \subseteq events' /\ OnlyInsertWrites' ]_vars

\* create_event added an event next to the one that was there, and list_events
\* was served after it.
C25_Witness ==
    /\ lastTool.name = "list_events" /\ ~ lastTool.isError
    /\ apiLog = << "calendar.events.insert", "calendar.events.list" >>
    /\ Cardinality(events) = 2
    /\ \E e \in events : e.id = 1 /\ e.summary = "standup"

\* C26: the advertised names are exactly the names the switch dispatches, and
\* a request with any other name throws MethodNotFound with no handler run
\* and no API call issued.
C26_AdvertisedIsDispatched ==
    /\ Advertised(variant) = { n \in RequestNames : Dispatch(variant, n) # "" }
    /\ lastTool.tools # {} => lastTool.tools = { n \in RequestNames : Dispatch(variant, n) # "" }
    /\ lastTool.threw = "MethodNotFound" =>
            /\ lastTool.name \notin Advertised(variant)
            /\ lastTool.handler = "" /\ lastTool.issued = << >>
    /\ lastTool.name \in Advertised(variant) =>
            lastTool.handler # "" /\ lastTool.threw = ""
    /\ lastTool.name \in RequestNames \ Advertised(variant) =>
            lastTool.threw = "MethodNotFound"

\* A variant with seven tools refused delete_event after serving a request
\* that reached the API.
C26_Witness ==
    /\ variant = "part_001"
    /\ lastTool.name = "delete_event" /\ lastTool.threw = "MethodNotFound"
    /\ Len(apiLog) >= 1
    /\ lastTool.issued = << >>

EmptyLine(line) == ~ Truthy(line)

HasHeader(lines, name) == \E i \in 1..Len(lines) : lines[i][1] = name

\* C27 (as claimed): every message sent has an empty line between the Subject
\* header and the body, a Cc (Bcc) line exactly when cc (bcc) is non-empty,
\* and its non-empty body as last line.
C27_Claim ==
    \A k \in 1..Len(outbox) :
        LET m == outbox[k]
        IN  /\ \E i \in 1..(Len(m.lines) - 1) :
                    m.lines[i] = << "Subject: ", m.subject >> /\ EmptyLine(m.lines[i + 1])
            /\ HasHeader(m.lines, "Cc: ") <=> (m.cc # Absent /\ m.cc # Some(""))
            /\ HasHeader(m.lines, "Bcc: ") <=> (m.bcc # Absent /\ m.bcc # Some(""))
            /\ m.body # "" => m.lines[Len(m.lines)] = << m.body >>

====
